---- MODULE Spec2Model ----
(***************************************************************************)
(* Model of BBS-report.py (Bioconductor Build System, stage6d report       *)
(* generator): the status resolver get_pkg_overall_status and the message  *)
(* composer of BBSReportContent.                                           *)
(***************************************************************************)
EXTENDS Integers, Sequences, FiniteSets, TLC

VARIABLES
    skipped_pkgs,   \* content.skipped_pkgs, handed to the templates
    statuses,       \* per package, the raw statuses a template hands over
    overall,        \* per package, the overall status a template last got
    displayed,      \* BBSreportutils.stages_to_display(BBSvars.buildtype)
    timeouts,       \* BBSvars.INSTALL/BUILD/CHECK/BUILDBIN_timeout (seconds)
    compact,        \* config.compact (the simple-layout flag)
    explanations,   \* content.explanations
    stage_labels,   \* the local list 'stages' of get_status_messages
    buildtype,      \* BBSvars.buildtype
    has_buildbin,   \* per node, BBSreportutils.is_doing_buildbin(node)
    supported,      \* per node, BBSreportutils.supported_pkgs(node)
    status_db,      \* BBSreportutils.get_pkg_status(pkg, node_id, stage)
    pkgs,           \* content.pkgs
    pc,             \* where the run is
    MEAT_INDEX,     \* the keys of MEAT_INDEX, in the order of the index file
    skipped_index,  \* the names read from BBSutils.skipped_index_file
    argv,           \* sys.argv
    options,        \* the dict returned by parse_options
    db_isfile,      \* os.path.isfile(BUILD_STATUS_DB_file)
    stdout,         \* the lines printed about the status database
    exit,           \* how the process ended, if it has
    no_raw_results, \* config.no_raw_results
    out_dirs,       \* the directories below the report directory
    out_files,      \* the files below the report directory
    pkg_dep_graph,  \* the dependency graph read from pkg_dep_graph_file
    pkgs_inner_rev_deps, \* content.pkgs_inner_rev_deps
    missing_out,    \* the (package, node, stage) whose out.txt is missing
    package_pages,  \* packages_rev_deps of each package page written
    status_pages,   \* command_output of each status page written
    crash           \* the exception that ended the run, if one did

asm_vars == <<buildtype, has_buildbin, supported, status_db, pkgs, pc>>

index_vars == <<MEAT_INDEX, skipped_index>>

main_vars == <<argv, options, db_isfile, stdout, exit>>

emit_vars == <<pkg_dep_graph, pkgs_inner_rev_deps, missing_out,
               package_pages, status_pages, crash>>

run_vars == <<no_raw_results, out_dirs, out_files, emit_vars>>

vars == <<skipped_pkgs, statuses, overall, displayed, timeouts, compact,
          explanations, stage_labels, asm_vars, index_vars, main_vars, run_vars>>

(***************************************************************************)
(* Bounds and input domains                                                *)
(***************************************************************************)

\* Largest number of distinct raw statuses one package carries.
MaxStatuses == 3

\* Package names of the report.
Pkgs == {"pkgA", "pkgB"}

\* Raw status strings the upstream build records may hold: the five names
\* the resolver knows, a status it does not know, and differently cased
\* spellings of known names.
RawStatuses == {"OK", "WARNINGS", "ERROR", "TIMEOUT", "NA", "skipped",
                "error", "Timeout", "ok"}

StatusSets == {S \in SUBSET RawStatuses : Cardinality(S) <= MaxStatuses}

\* str.upper on the raw statuses above.
Upper(s) ==
    CASE s = "error" -> "ERROR"
      [] s = "Timeout" -> "TIMEOUT"
      [] s = "ok" -> "OK"
      [] s = "skipped" -> "SKIPPED"
      [] OTHER -> s

\* Value of an attribute that has not been assigned yet.
Unset == [k \in {} |-> ""]

(***************************************************************************)
(* Status resolver                                                         *)
(***************************************************************************)

\* Mutant: WARNINGS is tested before TIMEOUT.
get_pkg_overall_status_warn_first(pkg, sts, skipped) ==
    IF pkg \in skipped \/ "ERROR" \in sts THEN "ERROR"
    ELSE IF "WARNINGS" \in sts THEN "WARNINGS"
    ELSE IF "TIMEOUT" \in sts THEN "TIMEOUT"
    ELSE IF "NA" \in sts THEN "NA"
    ELSE IF "OK" \in sts THEN "OK"
    ELSE "unknown"

\* Mutant: the statuses are upper-cased before they are matched.
get_pkg_overall_status_upper(pkg, sts, skipped) ==
    LET up == {Upper(s) : s \in sts}
    IN  IF pkg \in skipped \/ "ERROR" \in up THEN "ERROR"
        ELSE IF "TIMEOUT" \in up THEN "TIMEOUT"
        ELSE IF "WARNINGS" \in up THEN "WARNINGS"
        ELSE IF "NA" \in up THEN "NA"
        ELSE IF "OK" \in up THEN "OK"
        ELSE "unknown"

\* Mutant: the final else branch is missing, so that 'status' is unbound
\* at the return when no name matches.
get_pkg_overall_status_no_else(pkg, sts, skipped) ==
    IF pkg \in skipped \/ "ERROR" \in sts THEN "ERROR"
    ELSE IF "TIMEOUT" \in sts THEN "TIMEOUT"
    ELSE IF "WARNINGS" \in sts THEN "WARNINGS"
    ELSE IF "NA" \in sts THEN "NA"
    ELSE IF "OK" \in sts THEN "OK"
    ELSE "UnboundLocalError"

\* Mutant: the skipped test looks at the package name instead of at its
\* membership in the skipped list.
get_pkg_overall_status_by_name(pkg, sts, skipped) ==
    IF (skipped # {} /\ pkg = "pkgA") \/ "ERROR" \in sts THEN "ERROR"
    ELSE IF "TIMEOUT" \in sts THEN "TIMEOUT"
    ELSE IF "WARNINGS" \in sts THEN "WARNINGS"
    ELSE IF "NA" \in sts THEN "NA"
    ELSE IF "OK" \in sts THEN "OK"
    ELSE "unknown"

get_pkg_overall_status(pkg, sts, skipped) ==
    IF pkg \in skipped \/ "ERROR" \in sts THEN "ERROR"
    ELSE IF "TIMEOUT" \in sts THEN "TIMEOUT"
    ELSE IF "WARNINGS" \in sts THEN "WARNINGS"
    ELSE IF "NA" \in sts THEN "NA"
    ELSE IF "OK" \in sts THEN "OK"
    ELSE "unknown"

\* A template evaluates get_pkg_overall_status for package p.
RenderOverallStatus(p) ==
    /\ overall[p] = "-"
    /\ overall' = [overall EXCEPT
                     ![p] = get_pkg_overall_status(p, statuses[p], skipped_pkgs)]
    /\ UNCHANGED <<skipped_pkgs, statuses, displayed, timeouts, compact,
                   explanations, stage_labels, asm_vars, index_vars, main_vars, run_vars>>

(***************************************************************************)
(* Message composer                                                        *)
(***************************************************************************)

\* Stage identifiers, as BBSreportutils.stages_to_display yields them.
StageIds == {"install", "buildsrc", "checksrc", "buildbin"}

\* Names of the BBSvars timeouts.
TimeoutNames == {"INSTALL", "BUILD", "CHECK", "BUILDBIN"}

\* Timeout values in seconds the build may be configured with.
TimeoutChoices == {2400, 2459, 4800}

\* Non-empty lists of distinct stage identifiers, in every order.
StageLists ==
    {q \in UNION {[1..n -> StageIds] : n \in 1..Cardinality(StageIds)} :
        \A i, j \in 1..Len(q) : i # j => q[i] # q[j]}

Range(q) == {q[i] : i \in 1..Len(q)}

\* labels[:-1] and labels[-1]
ButLast(q) == SubSeq(q, 1, Len(q) - 1)

Last(q) == q[Len(q)]

\* ', '.join(q)
RECURSIVE CommaJoin(_)
CommaJoin(q) ==
    IF Len(q) = 0 THEN ""
    ELSE IF Len(q) = 1 THEN q[1]
    ELSE q[1] \o ", " \o CommaJoin(Tail(q))

\* BBSreportutils.stage_label
stage_label(stage) ==
    CASE stage = "install" -> "INSTALL"
      [] stage = "buildsrc" -> "BUILD"
      [] stage = "checksrc" -> "CHECK"
      [] stage = "buildbin" -> "BUILD BIN"

_get_stage_labels == [i \in 1..Len(displayed) |-> stage_label(displayed[i])]

\* int(timeout / 60.0)
Minutes(seconds) == seconds \div 60

\* The list 'labels' of _get_TIMEOUT_message.
TIMEOUT_labels(stages) ==
    (IF "INSTALL" \in Range(stages) THEN <<"INSTALL">> ELSE <<>>)
    \o (IF "BUILD" \in Range(stages) THEN <<"BUILD">> ELSE <<>>)
    \o (IF "CHECK" \in Range(stages) THEN <<"CHECK">> ELSE <<>>)
    \o (IF "BUILD BIN" \in Range(stages) THEN <<"BUILD BIN">> ELSE <<>>)

\* Mutant: the CHECK entry takes the BUILD timeout.
TIMEOUT_times_check_as_build(stages) ==
    (IF "INSTALL" \in Range(stages)
        THEN <<Minutes(timeouts["INSTALL"])>> ELSE <<>>)
    \o (IF "BUILD" \in Range(stages)
        THEN <<Minutes(timeouts["BUILD"])>> ELSE <<>>)
    \o (IF "CHECK" \in Range(stages)
        THEN <<Minutes(timeouts["BUILD"])>> ELSE <<>>)
    \o (IF "BUILD BIN" \in Range(stages)
        THEN <<Minutes(timeouts["BUILDBIN"])>> ELSE <<>>)

\* The list 'times' of _get_TIMEOUT_message.
TIMEOUT_times(stages) ==
    (IF "INSTALL" \in Range(stages)
        THEN <<Minutes(timeouts["INSTALL"])>> ELSE <<>>)
    \o (IF "BUILD" \in Range(stages)
        THEN <<Minutes(timeouts["BUILD"])>> ELSE <<>>)
    \o (IF "CHECK" \in Range(stages)
        THEN <<Minutes(timeouts["CHECK"])>> ELSE <<>>)
    \o (IF "BUILD BIN" \in Range(stages)
        THEN <<Minutes(timeouts["BUILDBIN"])>> ELSE <<>>)

\* Mutant: same_times compares only the first and the last value.
_get_TIMEOUT_message_first_last(stages) ==
    LET labels == TIMEOUT_labels(stages)
        times == TIMEOUT_times(stages)
        msg1 == IF Len(labels) = 1 THEN labels[1]
                ELSE CommaJoin(ButLast(labels)) \o " or " \o Last(labels)
        msg2 == msg1 \o " of package took more than "
        same_times == times[1] = Last(times)
        strs == [i \in 1..Len(times) |-> ToString(times[i])]
        msg3 == IF same_times THEN msg2 \o ToString(times[1])
                ELSE msg2 \o CommaJoin(ButLast(strs)) \o " or " \o Last(strs)
        msg4 == msg3 \o " minutes"
    IN  IF ~same_times THEN msg4 \o ", respectively" ELSE msg4

_get_TIMEOUT_message(stages) ==
    LET labels == TIMEOUT_labels(stages)
        times == TIMEOUT_times(stages)
        msg1 == IF Len(labels) = 1 THEN labels[1]
                ELSE CommaJoin(ButLast(labels)) \o " or " \o Last(labels)
        msg2 == msg1 \o " of package took more than "
        same_times == ButLast(times) = Tail(times)
        strs == [i \in 1..Len(times) |-> ToString(times[i])]
        msg3 == IF same_times THEN msg2 \o ToString(times[1])
                ELSE msg2 \o CommaJoin(ButLast(strs)) \o " or " \o Last(strs)
        msg4 == msg3 \o " minutes"
    IN  IF ~same_times THEN msg4 \o ", respectively" ELSE msg4

\* list.remove(x): the list without its first x.
RECURSIVE Remove(_, _)
Remove(q, x) ==
    IF Len(q) = 0 THEN q
    ELSE IF q[1] = x THEN Tail(q)
    ELSE <<q[1]>> \o Remove(Tail(q), x)

\* Mutant: 'labels' is the caller's list itself, not a copy of it.
_get_ERROR_message_no_copy(stages) ==
    LET CHECK_in_labels == "CHECK" \in Range(stages)
        labels == IF CHECK_in_labels THEN Remove(stages, "CHECK") ELSE stages
        msg1 == IF Len(labels) = 1 THEN labels[1]
                ELSE CommaJoin(ButLast(labels)) \o " or " \o Last(labels)
        msg2 == msg1 \o " of package failed"
        msg3 == IF CHECK_in_labels THEN msg2 \o ", or CHECK produced errors"
                ELSE msg2
    IN  IF Len(stages) = 1 /\ stages[1] = "CHECK"
        THEN [msg |-> "Bad DESCRIPTION file, or "
                        \o "CHECK of package produced errors",
              stages |-> stages]
        ELSE [msg |-> "Bad DESCRIPTION file, or " \o msg3,
              stages |-> labels]

\* The message, and the caller's list as the call leaves it.
_get_ERROR_message(stages) ==
    LET CHECK_in_labels == "CHECK" \in Range(stages)
        labels == IF CHECK_in_labels THEN Remove(stages, "CHECK") ELSE stages
        msg1 == IF Len(labels) = 1 THEN labels[1]
                ELSE CommaJoin(ButLast(labels)) \o " or " \o Last(labels)
        msg2 == msg1 \o " of package failed"
        msg3 == IF CHECK_in_labels THEN msg2 \o ", or CHECK produced errors"
                ELSE msg2
    IN  IF Len(stages) = 1 /\ stages[1] = "CHECK"
        THEN [msg |-> "Bad DESCRIPTION file, or "
                        \o "CHECK of package produced errors",
              stages |-> stages]
        ELSE [msg |-> "Bad DESCRIPTION file, or " \o msg3,
              stages |-> stages]

_get_WARNINGS_message == "CHECK of package produced warnings"

\* Mutant: a comma is put before the " or " as well.
_get_OK_message_comma_or(stages) ==
    LET msg == IF Len(stages) = 1 THEN stages[1]
               ELSE CommaJoin(ButLast(stages)) \o ", or " \o Last(stages)
    IN  msg \o " of package went OK"

_get_OK_message(stages) ==
    LET msg == IF Len(stages) = 1 THEN stages[1]
               ELSE CommaJoin(ButLast(stages)) \o " or " \o Last(stages)
    IN  msg \o " of package went OK"

_get_NA_message(stages) ==
    LET msg == IF Len(stages) = 1 THEN stages[1]
               ELSE CommaJoin(ButLast(stages)) \o " or " \o Last(stages)
    IN  msg \o " result is not available because"
            \o " of an anomaly in the Build System"

\* Mutant: BUILD BIN is named whether or not it is a stage of the report.
_get_skipped_message_both(stages) ==
    LET labels == (IF "CHECK" \in Range(stages) THEN <<"CHECK">> ELSE <<>>)
                  \o <<"BUILD BIN">>
        msg == IF Len(labels) = 1 THEN labels[1]
               ELSE CommaJoin(ButLast(labels)) \o " or " \o Last(labels)
    IN  msg \o " of package was skipped because the BUILD step failed"

_get_skipped_message(stages) ==
    LET labels == (IF "CHECK" \in Range(stages) THEN <<"CHECK">> ELSE <<>>)
                  \o (IF "BUILD BIN" \in Range(stages)
                      THEN <<"BUILD BIN">> ELSE <<>>)
        msg == IF Len(labels) = 1 THEN labels[1]
               ELSE CommaJoin(ButLast(labels)) \o " or " \o Last(labels)
    IN  msg \o " of package was skipped because the BUILD step failed"

\* Mutant: under the compact layout the OK message joins with "and".
get_status_messages_and_if_compact ==
    LET stages0 == _get_stage_labels
        error == _get_ERROR_message(stages0)
        stages == error.stages
        ok == IF ~compact \/ Len(stages) = 1 THEN _get_OK_message(stages)
              ELSE CommaJoin(ButLast(stages)) \o " and " \o Last(stages)
                       \o " of package went OK"
        keys == {"timeout", "error", "ok", "na"}
                \cup (IF "CHECK" \in Range(stages) THEN {"check"} ELSE {})
                \cup (IF "CHECK" \in Range(stages)
                         \/ "BUILD BIN" \in Range(stages)
                      THEN {"skipped"} ELSE {})
        msg == [k \in keys |->
                  CASE k = "timeout" -> _get_TIMEOUT_message(stages0)
                    [] k = "error" -> error.msg
                    [] k = "check" -> _get_WARNINGS_message
                    [] k = "ok" -> ok
                    [] k = "na" -> _get_NA_message(stages)
                    [] k = "skipped" -> _get_skipped_message(stages)]
    IN  [msg |-> msg, stages |-> stages]

\* The returned table, and the local list 'stages' at the return.
get_status_messages ==
    LET stages0 == _get_stage_labels
        error == _get_ERROR_message(stages0)
        stages == error.stages
        keys == {"timeout", "error", "ok", "na"}
                \cup (IF "CHECK" \in Range(stages) THEN {"check"} ELSE {})
                \cup (IF "CHECK" \in Range(stages)
                         \/ "BUILD BIN" \in Range(stages)
                      THEN {"skipped"} ELSE {})
        msg == [k \in keys |->
                  CASE k = "timeout" -> _get_TIMEOUT_message(stages0)
                    [] k = "error" -> error.msg
                    [] k = "check" -> _get_WARNINGS_message
                    [] k = "ok" -> _get_OK_message(stages)
                    [] k = "na" -> _get_NA_message(stages)
                    [] k = "skipped" -> _get_skipped_message(stages)]
    IN  [msg |-> msg, stages |-> stages]

\* BBSReportContent.__init__ sets self.explanations.
SetExplanations ==
    /\ explanations = Unset
    /\ explanations' = get_status_messages.msg
    /\ stage_labels' = get_status_messages.stages
    /\ UNCHANGED <<skipped_pkgs, statuses, overall, displayed, timeouts,
                   compact, asm_vars, index_vars, main_vars, run_vars>>

(***************************************************************************)
(* Report data assembler                                                   *)
(***************************************************************************)

\* Build-matrix types: the ones the code names, and one it does not name.
BuildTypes == {"bioc", "bioc-mac-arm64", "bioc-longtests", "workflows",
               "books", "data-experiment"}

\* BBSreportutils.NODES, in its order.
NODES == <<"n1", "n2">>

Nodes == Range(NODES)

\* What get_pkg_status answers when the upstream records hold no anomaly.
AllOK == [e \in Pkgs \X Nodes \X StageIds |-> "OK"]

\* Upstream status records: all OK, but for at most one entry.
StatusDBs ==
    {AllOK} \cup {[AllOK EXCEPT ![e] = st] :
                    e \in Pkgs \X Nodes \X StageIds, st \in {"skipped", "NA"}}

\* An entry of content.pkgs that is still a bare package name.
BareName(name) == [isref |-> FALSE, name |-> name, results |-> Unset]

\* str.lower on stage identifiers and stage labels.
Lower(stage) ==
    CASE stage = "INSTALL" -> "install"
      [] stage = "BUILD" -> "build"
      [] stage = "CHECK" -> "check"
      [] stage = "BUILD BIN" -> "build bin"
      [] OTHER -> stage

\* stage.removesuffix('src')
RemoveSuffixSrc(stage) ==
    CASE stage = "buildsrc" -> "build"
      [] stage = "checksrc" -> "check"
      [] OTHER -> stage

\* Mutant: install is recorded under the long-tests type only.
StageIsRecorded_install_longtests(node, stage) ==
    \/ (buildtype = "bioc-longtests" /\ stage = "install")
    \/ (buildtype \notin {"workflows", "books"} /\ stage = "checksrc")
    \/ (has_buildbin[node] /\ stage = "build bin")
    \/ stage = "buildsrc"

\* Mutant: the books type is not excluded from checksrc.
StageIsRecorded_check_books(node, stage) ==
    \/ (buildtype # "bioc-longtests" /\ stage = "install")
    \/ (buildtype \notin {"workflows"} /\ stage = "checksrc")
    \/ (has_buildbin[node] /\ stage = "build bin")
    \/ stage = "buildsrc"

\* The test of lines 95-98: whether the status of 'stage' is recorded.
StageIsRecorded(node, stage) ==
    \/ (buildtype # "bioc-longtests" /\ stage = "install")
    \/ (buildtype \notin {"workflows", "books"} /\ stage = "checksrc")
    \/ (has_buildbin[node] /\ stage = "build bin")
    \/ stage = "buildsrc"

\* self.results of BBSPackageReference.__init__(name, ..., stages)
PackageResults(name, stages) ==
    [node \in {n \in Nodes : name \in supported[n]} |->
        LET recorded == {i \in 1..Len(stages) :
                            StageIsRecorded(node, Lower(stages[i]))}
            keys == {RemoveSuffixSrc(Lower(stages[i])) : i \in recorded}
            \* a later stage of the list overwrites an earlier one
            LastOf(k) == CHOOSE i \in recorded :
                            /\ RemoveSuffixSrc(Lower(stages[i])) = k
                            /\ \A j \in recorded :
                                 RemoveSuffixSrc(Lower(stages[j])) = k => j <= i
        IN  [k \in keys |-> status_db[<<name, node, Lower(stages[LastOf(k)])>>]]]

BBSPackageReference(name, stages) ==
    [isref |-> TRUE, name |-> name, results |-> PackageResults(name, stages)]

\* self.stages of BBSReportContent
ContentStages == [i \in 1..Len(displayed) |-> Lower(displayed[i])]

\* One turn of the loop of lines 295-325: the entry i of content.pkgs is
\* replaced by a package record at the first node that supports it.
AssemblePackage ==
    /\ pc.at = "assemble"
    /\ pc.i <= Len(pkgs)
    /\ LET name == pkgs[pc.i].name
       IN  pkgs' = IF \E n \in Nodes : name \in supported[n]
                   THEN [pkgs EXCEPT ![pc.i] =
                            BBSPackageReference(name, ContentStages)]
                   ELSE pkgs
    /\ pc' = [pc EXCEPT !.i = pc.i + 1]
    /\ UNCHANGED <<skipped_pkgs, statuses, overall, displayed, timeouts,
                   compact, explanations, stage_labels, buildtype,
                   has_buildbin, supported, status_db, index_vars, main_vars, run_vars>>

(***************************************************************************)
(* The package list: merge and sort                                        *)
(***************************************************************************)

\* Largest number of packages in the metadata index and in the skipped index.
MaxMeat == 2

MaxSkipped == 1

\* Package names the two indexes may hold.
PkgNames == {"AAAA", "aaaa", "zlibbioc", "Zoo", "apple", "a_b", "aBc", "a4"}

\* Lists of at most n distinct package names.
NameLists(n) ==
    {q \in UNION {[1..k -> PkgNames] : k \in 0..n} :
        \A i, j \in 1..Len(q) : i # j => q[i] # q[j]}

\* ord(c) for the characters of the package names.
Ord(c) ==
    CASE c = "4" -> 52
      [] c = "A" -> 65 [] c = "B" -> 66 [] c = "Z" -> 90
      [] c = "_" -> 95
      [] c = "a" -> 97 [] c = "b" -> 98 [] c = "c" -> 99 [] c = "e" -> 101
      [] c = "i" -> 105 [] c = "l" -> 108 [] c = "o" -> 111 [] c = "p" -> 112
      [] c = "z" -> 122

\* The code points of a string.
Codes(str) == [i \in 1..Len(str) |-> Ord(SubSeq(str, i, i))]

\* str.lower, on code points: A-Z become a-z.
LowerCodes(str) ==
    [i \in 1..Len(str) |->
        LET c == Codes(str)[i]
        IN  IF 65 <= c /\ c <= 90 THEN c + 32 ELSE c]

\* a < b for two lists of code points, as Python compares strings.
RECURSIVE CodesLess(_, _)
CodesLess(a, b) ==
    IF Len(b) = 0 THEN FALSE
    ELSE IF Len(a) = 0 THEN TRUE
    ELSE IF a[1] # b[1] THEN a[1] < b[1]
    ELSE CodesLess(Tail(a), Tail(b))

\* The sort key of a name: str.lower when fold, else the name itself.
SortKey(name, fold) == IF fold THEN LowerCodes(name) ELSE Codes(name)

\* list.sort is stable: x goes behind every element whose key is not greater.
RECURSIVE InsertByKey(_, _, _)
InsertByKey(q, x, fold) ==
    IF Len(q) = 0 THEN <<x>>
    ELSE IF CodesLess(SortKey(x, fold), SortKey(q[1], fold)) THEN <<x>> \o q
    ELSE <<q[1]>> \o InsertByKey(Tail(q), x, fold)

RECURSIVE SortByKey(_, _)
SortByKey(q, fold) ==
    IF Len(q) = 0 THEN q
    ELSE InsertByKey(SortByKey(ButLast(q), fold), Last(q), fold)

\* Mutant: the list is sorted without the key.
SortPkgs_no_key(q) == SortByKey(q, FALSE)

\* q.sort(key=str.lower)
SortPkgs(q) == SortByKey(q, TRUE)

\* Lines 256-259: self.skipped_pkgs and self.pkgs.
MergeAndSortPkgs ==
    /\ pc.at = "load"
    /\ skipped_pkgs' = Range(skipped_index)
    /\ pkgs' = LET names == SortPkgs(MEAT_INDEX \o skipped_index)
               IN  [i \in 1..Len(names) |-> BareName(names[i])]
    /\ pc' = [pc EXCEPT !.at = "sorted"]
    /\ UNCHANGED <<statuses, overall, displayed, timeouts, compact,
                   explanations, stage_labels, buildtype, has_buildbin,
                   supported, status_db, index_vars, main_vars, run_vars>>

(***************************************************************************)
(* The main section: options, status database, report directory            *)
(***************************************************************************)

\* Largest number of command line arguments after the script name.
MaxArgs == 3

usage_msg ==
    "Usage:\n    BBS-report.py [simple-layout] [no-alphabet-dispatch] [no-raw-results]\n"

valid_options == <<"simple-layout", "no-alphabet-dispatch", "no-raw-results">>

\* What a command line may hold after the script name.
Args == Range(valid_options) \cup {"--help"}

ArgLists == UNION {[1..k -> Args] : k \in 0..MaxArgs}

\* The process is still running.
Running == [code |-> 0, msg |-> ""]

\* sys.exit(msg) with a string: msg goes to standard error, the status is 1.
sys_exit(msg) == [code |-> 1, msg |-> msg]

\* Mutant: the script name is kept among the options.
parse_options_keep_script_name(av) ==
    LET given == Range(av)
    IN  IF ~(given \subseteq Range(valid_options))
        THEN [exit |-> sys_exit(usage_msg), options |-> Unset]
        ELSE [exit |-> Running,
              options |-> [option \in Range(valid_options) |-> option \in given]]

parse_options(av) ==
    LET given == Range(Tail(av))
    IN  IF ~(given \subseteq Range(valid_options))
        THEN [exit |-> sys_exit(usage_msg), options |-> Unset]
        ELSE [exit |-> Running,
              options |-> [option \in Range(valid_options) |-> option \in given]]

\* Line 1140.
ParseOptions ==
    /\ pc.at = "parse"
    /\ LET r == parse_options(argv)
       IN  /\ exit' = r.exit
           /\ options' = r.options
           /\ pc' = [pc EXCEPT !.at = IF r.exit = Running THEN "check_db" ELSE "exit"]
    /\ UNCHANGED <<skipped_pkgs, statuses, overall, displayed, timeouts,
                   compact, explanations, stage_labels, buildtype,
                   has_buildbin, supported, status_db, pkgs, index_vars,
                   argv, db_isfile, stdout, run_vars>>

\* Mutant: the status database is taken to be there.
StatusDBMissing_never(isfile) == FALSE

\* Line 1142.
StatusDBMissing(isfile) == ~isfile

\* Lines 1142-1146.
CheckStatusDB ==
    /\ pc.at = "check_db"
    /\ IF StatusDBMissing(db_isfile)
       THEN /\ stdout' = stdout \o <<"BUILD_STATUS_DB_file missing">>
            /\ exit' = sys_exit("=> EXIT.")
            /\ pc' = [pc EXCEPT !.at = "exit"]
       ELSE /\ pc' = [pc EXCEPT !.at = "remake_dir"]
            /\ UNCHANGED <<stdout, exit>>
    /\ UNCHANGED <<skipped_pkgs, statuses, overall, displayed, timeouts,
                   compact, explanations, stage_labels, buildtype,
                   has_buildbin, supported, status_db, pkgs, index_vars,
                   argv, options, db_isfile, run_vars>>

\* Lines 1152-1156: the configuration, then the report directory is remade.
RemakeReportDir ==
    /\ pc.at = "remake_dir"
    /\ compact' = options["simple-layout"]
    /\ no_raw_results' = options["no-raw-results"]
    /\ out_dirs' = {}
    /\ out_files' = {}
    /\ pc' = [pc EXCEPT !.at = "copy"]
    /\ UNCHANGED <<skipped_pkgs, statuses, overall, displayed, timeouts,
                   explanations, stage_labels, buildtype, has_buildbin,
                   supported, status_db, pkgs, index_vars, main_vars,
                   emit_vars>>

\* The files the main section always copies or writes (lines 1158-1200),
\* each as the list of the components of its path.
MainFiles ==
    {<<"meat_index_file">>, <<"skipped_index_file">>,
     <<"BUILD_STATUS_DB_file">>, <<".htaccess">>, <<"bbs.css">>,
     <<"120px-Red_Light_Icon.svg.png">>, <<"120px-Green_Light_Icon.svg.png">>,
     <<"120px-Blue_Light_Icon.svg.png">>}

\* Lines 1158-1200.
CopyInputs ==
    /\ pc.at = "copy"
    /\ out_files' = out_files \cup MainFiles
    /\ pc' = [pc EXCEPT !.at = "make_reports"]
    /\ UNCHANGED <<skipped_pkgs, statuses, overall, displayed, timeouts,
                   compact, explanations, stage_labels, buildtype,
                   has_buildbin, supported, status_db, pkgs, index_vars,
                   main_vars, no_raw_results, out_dirs, emit_vars>>

(***************************************************************************)
(* The package pages: make_package_reports                                 *)
(***************************************************************************)

\* Python's None.
None == [none |-> TRUE]

\* Build types with dependency reporting (lines 266 and 879).
DepBuildTypes == {"bioc", "bioc-mac-arm64"}

\* Dependency graphs: for each package, the packages it depends on.
DepGraphs ==
    {[p \in Pkgs |-> {}],
     [p \in Pkgs |-> IF p = "pkgA" THEN {"pkgB"} ELSE {}],
     [p \in Pkgs |-> IF p = "pkgB" THEN {"pkgA"} ELSE {}]}

\* BBSreportutils.get_inner_reverse_deps: for each package, the packages of
\* the list that depend on it.
get_inner_reverse_deps(names, graph) ==
    [p \in names |-> {q \in names : p \in graph[q]}]

\* Lines 266-281.
LoadDepGraph ==
    /\ pc.at = "deps"
    /\ pkgs_inner_rev_deps' =
          IF buildtype \in DepBuildTypes
          THEN get_inner_reverse_deps({pkgs[i].name : i \in 1..Len(pkgs)},
                                      pkg_dep_graph)
          ELSE None
    /\ pc' = [pc EXCEPT !.at = "assemble"]
    /\ UNCHANGED <<skipped_pkgs, statuses, overall, displayed, timeouts,
                   compact, explanations, stage_labels, buildtype,
                   has_buildbin, supported, status_db, pkgs, index_vars,
                   main_vars, no_raw_results, out_dirs, out_files,
                   pkg_dep_graph, missing_out, package_pages, status_pages,
                   crash>>

\* The content is built (line 1102); make_package_reports starts its loop.
BeginPackageReports ==
    /\ pc.at = "assemble"
    /\ pc.i > Len(pkgs)
    /\ pc' = [pc EXCEPT !.at = IF Len(pkgs) = 0 THEN "done" ELSE "package_report",
                        !.i = 1]
    /\ UNCHANGED <<skipped_pkgs, statuses, overall, displayed, timeouts,
                   compact, explanations, stage_labels, buildtype,
                   has_buildbin, supported, status_db, pkgs, index_vars,
                   main_vars, run_vars>>

\* The attributes of the content that the package pages are made from.
Content ==
    [pkgs |-> pkgs, skipped_pkgs |-> skipped_pkgs, stages |-> ContentStages,
     pkg_dep_graph |-> pkg_dep_graph,
     pkgs_inner_rev_deps |-> pkgs_inner_rev_deps]

\* Lines 969-972: content.pkgs_rev_deps[pkg.name] under try, [] under except.
pkg_rev_deps(entry) ==
    IF /\ "pkgs_rev_deps" \in DOMAIN Content
       /\ entry.isref
       /\ entry.name \in DOMAIN Content["pkgs_rev_deps"]
    THEN Content["pkgs_rev_deps"][entry.name]
    ELSE {}

\* The path and the paths above it.
Parents(path) == {SubSeq(path, 1, k) : k \in 1..Len(path)}

\* os.makedirs(path) in the tree t: the leaf must not be there.
makedirs(t, path) ==
    IF t.error # "" THEN t
    ELSE IF path \in t.dirs
    THEN [t EXCEPT !.error = "FileExistsError"]
    ELSE [t EXCEPT !.dirs = t.dirs \cup Parents(path)]

\* Mutant: the directory is taken to be there.
makedirs_if_absent_skip(t, path) == t

\* if not os.path.exists(path): os.makedirs(path)
makedirs_if_absent(t, path) == IF path \in t.dirs THEN t ELSE makedirs(t, path)

\* The report directory as a tree.
Tree == [dirs |-> out_dirs, files |-> out_files, error |-> ""]

\* open(path, "w") and shutil.copyfile(src, path): the directory of the file
\* must be there (the report directory itself always is).
write_file(t, path) ==
    IF t.error # "" THEN t
    ELSE IF Len(path) > 1 /\ ButLast(path) \notin t.dirs
    THEN [t EXCEPT !.error = "FileNotFoundError"]
    ELSE [t EXCEPT !.files = t.files \cup {path}]

\* Where the loops of lines 976-984 go after node number n of package i.
AfterNode(i, n) ==
    IF n < Len(NODES) THEN [at |-> "status", i |-> i, n |-> n + 1, s |-> 1]
    ELSE IF i < Len(pkgs)
    THEN [at |-> "package_report", i |-> i + 1, n |-> 1, s |-> 1]
    ELSE [at |-> "done", i |-> i, n |-> 1, s |-> 1]

\* Where they go after stage number s.
AfterStage(i, n, s) ==
    IF s < Len(ContentStages)
    THEN [at |-> "status", i |-> i, n |-> n, s |-> s + 1]
    ELSE AfterNode(i, n)

Crashed == [at |-> "crashed", i |-> pc.i, n |-> pc.n, s |-> pc.s]

\* Lines 968-973: the reverse dependencies, then make_package_report.
MakePackageReport ==
    /\ pc.at = "package_report"
    /\ LET entry == pkgs[pc.i]
           t == write_file(makedirs_if_absent(Tree, <<entry.name>>),
                           <<entry.name, "index.html">>)
       IN  IF ~entry.isref
           THEN \* a bare name has no attribute 'name' (line 875)
                /\ crash' = "AttributeError"
                /\ pc' = Crashed
                /\ UNCHANGED <<out_dirs, out_files, package_pages>>
           ELSE /\ out_dirs' = t.dirs
                /\ out_files' = t.files
                /\ package_pages' =
                      IF t.error # "" THEN package_pages
                      ELSE [name \in DOMAIN package_pages \cup {entry.name} |->
                              IF name = entry.name THEN pkg_rev_deps(entry)
                              ELSE package_pages[name]]
                /\ crash' = t.error
                /\ pc' = IF t.error # "" THEN Crashed
                         ELSE [pc EXCEPT !.at = IF ~no_raw_results
                                                THEN "raw_results" ELSE "status"]
    /\ UNCHANGED <<skipped_pkgs, statuses, overall, displayed, timeouts,
                   compact, explanations, stage_labels, buildtype,
                   has_buildbin, supported, status_db, pkgs, index_vars,
                   main_vars, no_raw_results, pkg_dep_graph,
                   pkgs_inner_rev_deps, missing_out, status_pages>>

\* write_info_dcf: the copy of line 637 and the append of lines 646-648.
write_info_dcf(t, name) ==
    LET copied == write_file(t, <<name, "raw-results", "info.dcf">>)
    IN  makedirs_if_absent(copied, <<name, "raw-results">>)

\* The loop of lines 855-859 from node number n on.
RECURSIVE RawResultsFrom(_, _, _)
RawResultsFrom(t, entry, n) ==
    IF n > Len(NODES) \/ t.error # "" THEN t
    ELSE LET node == NODES[n]
         IN  IF entry.name \notin supported[node]
             THEN RawResultsFrom(t, entry, n + 1)
             ELSE IF "install" \notin DOMAIN entry.results[node]
             THEN [t EXCEPT !.error = "KeyError"]
             ELSE IF entry.results[node]["install"] = "skipped"
             THEN RawResultsFrom(t, entry, n + 1)
             ELSE LET made == makedirs(t, <<entry.name, "raw-results">>)
                  IN  IF made.error # "" THEN made
                      ELSE RawResultsFrom(write_info_dcf(made, entry.name),
                                          entry, n + 1)

make_package_raw_results(t, entry) ==
    IF buildtype # "bioc-longtests" /\ ~no_raw_results
    THEN RawResultsFrom(t, entry, 1)
    ELSE t

\* Lines 974-975.
MakePackageRawResults ==
    /\ pc.at = "raw_results"
    /\ LET t == make_package_raw_results(Tree, pkgs[pc.i])
       IN  /\ out_dirs' = t.dirs
           /\ out_files' = t.files
           /\ crash' = t.error
           /\ pc' = IF t.error # "" THEN Crashed
                    ELSE [pc EXCEPT !.at = "status"]
    /\ UNCHANGED <<skipped_pkgs, statuses, overall, displayed, timeouts,
                   compact, explanations, stage_labels, buildtype,
                   has_buildbin, supported, status_db, pkgs, index_vars,
                   main_vars, no_raw_results, pkg_dep_graph,
                   pkgs_inner_rev_deps, missing_out, package_pages,
                   status_pages>>

\* Line 977: a node that does not support the package is passed over.
SkipNode ==
    /\ pc.at = "status"
    /\ pkgs[pc.i].name \notin supported[NODES[pc.n]]
    /\ pc' = AfterNode(pc.i, pc.n)
    /\ UNCHANGED <<skipped_pkgs, statuses, overall, displayed, timeouts,
                   compact, explanations, stage_labels, buildtype,
                   has_buildbin, supported, status_db, pkgs, index_vars,
                   main_vars, run_vars>>

\* _get_outgoing_raw_result_path
outgoing_raw_result_path(name, node, stage, suffix) ==
    <<name, "raw-results", node, stage \o "-" \o suffix>>

\* Mutant: the summary is copied whatever the configuration says.
get_summary_output_always_copy(t, name, node, stage) ==
    LET made == makedirs_if_absent(t, <<name, "raw-results", node>>)
    IN  write_file(made, outgoing_raw_result_path(name, node, stage, "summary.dcf"))

\* get_summary_output: what it does to the tree.
get_summary_output(t, name, node, stage) ==
    IF ~no_raw_results
    THEN LET made == makedirs_if_absent(t, <<name, "raw-results", node>>)
         IN  write_file(made, outgoing_raw_result_path(name, node, stage, "summary.dcf"))
    ELSE t

Apology ==
    "Due to an anomaly in the Build System, this output is not available. We apologize for the inconvenience."

\* get_file_contents of an out.txt that is there.
OutTxtContents(name, node, stage) ==
    "products-in/" \o node \o "/" \o stage \o "/" \o name \o "." \o stage \o "-out.txt"

\* Mutant: the file is copied before it is looked for.
get_command_output_copy_first(t, name, node, stage) ==
    LET copied == write_file(t, outgoing_raw_result_path(name, node, stage, "out.txt"))
    IN  IF <<name, node, stage>> \in missing_out
        THEN [tree |-> IF ~no_raw_results THEN copied ELSE t, contents |-> Apology]
        ELSE [tree |-> IF ~no_raw_results THEN copied ELSE t,
              contents |-> OutTxtContents(name, node, stage)]

\* get_command_output: what it does to the tree, and what it returns.
get_command_output(t, name, node, stage) ==
    IF <<name, node, stage>> \in missing_out
    THEN [tree |-> t, contents |-> Apology]
    ELSE [tree |-> IF ~no_raw_results
                   THEN write_file(t, outgoing_raw_result_path(name, node, stage, "out.txt"))
                   ELSE t,
          contents |-> OutTxtContents(name, node, stage)]

\* The page file of make_package_status_report (line 930).
status_page_file(name, node, stage) ==
    <<name, node \o "-" \o stage \o ".html">>

\* make_package_status_report: the tree it leaves, and the command output
\* the page is rendered with.
make_package_status_report(t, name, node, stage) ==
    LET summarized == get_summary_output(t, name, node, stage)
        output == get_command_output(summarized, name, node, stage)
    IN  [tree |-> write_file(output.tree, status_page_file(name, node, stage)),
         contents |-> output.contents]

\* One turn of the stage loop of lines 978-984.
PackageStatusStep ==
    /\ pc.at = "status"
    /\ pkgs[pc.i].name \in supported[NODES[pc.n]]
    /\ LET entry == pkgs[pc.i]
           node == NODES[pc.n]
           stage == ContentStages[pc.s]
           key == RemoveSuffixSrc(stage)
           r == make_package_status_report(Tree, entry.name, node, stage)
       IN  IF stage = "buildbin" /\ ~has_buildbin[node]
           THEN /\ pc' = AfterStage(pc.i, pc.n, pc.s)
                /\ UNCHANGED <<out_dirs, out_files, status_pages, crash>>
           ELSE IF key \notin DOMAIN entry.results[node]
           THEN /\ crash' = "KeyError"
                /\ pc' = Crashed
                /\ UNCHANGED <<out_dirs, out_files, status_pages>>
           ELSE IF entry.results[node][key] \in {"skipped", "NA"}
           THEN /\ pc' = AfterStage(pc.i, pc.n, pc.s)
                /\ UNCHANGED <<out_dirs, out_files, status_pages, crash>>
           ELSE /\ out_dirs' = r.tree.dirs
                /\ out_files' = r.tree.files
                /\ status_pages' =
                      IF r.tree.error # "" THEN status_pages
                      ELSE [f \in DOMAIN status_pages
                                 \cup {status_page_file(entry.name, node, stage)} |->
                              IF f = status_page_file(entry.name, node, stage)
                              THEN r.contents ELSE status_pages[f]]
                /\ crash' = r.tree.error
                /\ pc' = IF r.tree.error # "" THEN Crashed
                         ELSE AfterStage(pc.i, pc.n, pc.s)
    /\ UNCHANGED <<skipped_pkgs, statuses, overall, displayed, timeouts,
                   compact, explanations, stage_labels, buildtype,
                   has_buildbin, supported, status_db, pkgs, index_vars,
                   main_vars, no_raw_results, pkg_dep_graph,
                   pkgs_inner_rev_deps, missing_out, package_pages>>

(***************************************************************************)
(* Specifications: one for the resolver as the templates call it, one for  *)
(* the message table as BBSReportContent builds it                         *)
(***************************************************************************)

\* The assembler's state while another part of the program is looked at.
AsmIdle ==
    /\ buildtype = "bioc"
    /\ has_buildbin = [n \in Nodes |-> FALSE]
    /\ supported = [n \in Nodes |-> {}]
    /\ status_db = AllOK
    /\ pkgs = <<>>
    /\ pc = [at |-> "idle", i |-> 1]

\* The command line and the process while another part of the program is
\* looked at.
MainIdle ==
    /\ argv = <<"BBS-report.py">>
    /\ options = parse_options(<<"BBS-report.py">>).options
    /\ db_isfile = TRUE
    /\ stdout = <<>>
    /\ exit = Running

\* The package pages while another part of the program is looked at.
EmitIdle ==
    /\ pkg_dep_graph = [p \in Pkgs |-> {}]
    /\ pkgs_inner_rev_deps = None
    /\ missing_out = {}
    /\ package_pages = Unset
    /\ status_pages = Unset
    /\ crash = ""

\* The report directory while another part of the program is looked at.
RunIdle ==
    /\ no_raw_results = FALSE
    /\ out_dirs = {}
    /\ out_files = {}
    /\ EmitIdle

\* The two indexes while another part of the program is looked at.
IndexIdle ==
    /\ MEAT_INDEX = <<"pkgA", "pkgB">>
    /\ skipped_index = <<>>

InitStatus ==
    /\ skipped_pkgs \in SUBSET Pkgs
    /\ statuses \in [Pkgs -> StatusSets]
    /\ overall = [p \in Pkgs |-> "-"]
    /\ displayed = <<"buildsrc">>
    /\ timeouts = [t \in TimeoutNames |-> 2400]
    /\ compact \in BOOLEAN
    /\ explanations = Unset
    /\ stage_labels = <<>>
    /\ AsmIdle
    /\ IndexIdle
    /\ MainIdle
    /\ RunIdle

NextStatus == \E p \in Pkgs : RenderOverallStatus(p)

SpecStatus == InitStatus /\ [][NextStatus]_vars

InitMsg ==
    /\ skipped_pkgs = {}
    /\ statuses = [p \in Pkgs |-> {}]
    /\ overall = [p \in Pkgs |-> "-"]
    /\ displayed \in StageLists
    /\ timeouts \in [TimeoutNames -> TimeoutChoices]
    /\ compact \in BOOLEAN
    /\ explanations = Unset
    /\ stage_labels = <<>>
    /\ AsmIdle
    /\ IndexIdle
    /\ MainIdle
    /\ RunIdle

NextMsg == SetExplanations

SpecMsg == InitMsg /\ [][NextMsg]_vars

\* The package list before the loop of lines 295-325: bare names, sorted.
SortedNames == <<BareName("pkgA"), BareName("pkgB")>>

InitAsm ==
    /\ skipped_pkgs = {}
    /\ statuses = [p \in Pkgs |-> {}]
    /\ overall = [p \in Pkgs |-> "-"]
    /\ displayed \in StageLists
    /\ timeouts = [t \in TimeoutNames |-> 2400]
    /\ compact = FALSE
    /\ explanations = Unset
    /\ stage_labels = <<>>
    /\ buildtype \in BuildTypes
    /\ has_buildbin \in [Nodes -> BOOLEAN]
    /\ supported \in [Nodes -> SUBSET Pkgs]
    /\ status_db \in {db \in StatusDBs :
                        \A e \in DOMAIN db : db[e] # "OK" => e[1] = "pkgA" /\ e[2] = "n1" /\ db[e] = "NA"}
    /\ pkgs = SortedNames
    /\ pc = [at |-> "assemble", i |-> 1]

    /\ IndexIdle
    /\ MainIdle
    /\ RunIdle

NextAsm == AssemblePackage

SpecAsm == InitAsm /\ [][NextAsm]_vars

InitPkgs ==
    /\ skipped_pkgs = {}
    /\ statuses = [p \in Pkgs |-> {}]
    /\ overall = [p \in Pkgs |-> "-"]
    /\ displayed = <<"buildsrc">>
    /\ timeouts = [t \in TimeoutNames |-> 2400]
    /\ compact = FALSE
    /\ explanations = Unset
    /\ stage_labels = <<>>
    /\ buildtype = "bioc"
    /\ has_buildbin = [n \in Nodes |-> FALSE]
    /\ supported = [n \in Nodes |-> {}]
    /\ status_db = AllOK
    /\ pkgs = <<>>
    /\ pc = [at |-> "load", i |-> 1]
    /\ MEAT_INDEX \in NameLists(MaxMeat)
    /\ skipped_index \in NameLists(MaxSkipped)
    /\ Range(MEAT_INDEX) \cap Range(skipped_index) = {}
    /\ MainIdle
    /\ RunIdle

NextPkgs == MergeAndSortPkgs

SpecPkgs == InitPkgs /\ [][NextPkgs]_vars

\* What an earlier run left in the report directory.
StaleDirs == {<<"pkgA">>}

StaleFiles == {<<"index.html">>, <<"pkgA", "index.html">>}

InitMain ==
    /\ skipped_pkgs = {}
    /\ statuses = [p \in Pkgs |-> {}]
    /\ overall = [p \in Pkgs |-> "-"]
    /\ displayed = <<"buildsrc">>
    /\ timeouts = [t \in TimeoutNames |-> 2400]
    /\ compact = FALSE
    /\ explanations = Unset
    /\ stage_labels = <<>>
    /\ buildtype = "bioc"
    /\ has_buildbin = [n \in Nodes |-> FALSE]
    /\ supported = [n \in Nodes |-> {}]
    /\ status_db = AllOK
    /\ pkgs = <<>>
    /\ pc = [at |-> "parse", i |-> 1]
    /\ IndexIdle
    /\ argv \in {<<"BBS-report.py">> \o a : a \in ArgLists}
    /\ options = Unset
    /\ db_isfile \in BOOLEAN
    /\ stdout = <<>>
    /\ exit = Running
    /\ no_raw_results = FALSE
    /\ out_dirs = StaleDirs
    /\ out_files = StaleFiles
    /\ EmitIdle

\* Stage lists of the build types.
RunStageLists ==
    {<<"install", "buildsrc", "checksrc", "buildbin">>,
     <<"install", "buildsrc", "checksrc">>,
     <<"install", "buildsrc">>,
     <<"buildsrc", "checksrc">>}

\* At most one anomaly upstream: a status that is not OK, or a missing out.txt.
Anomalies ==
    {[db |-> AllOK, missing |-> {}],
     [db |-> [AllOK EXCEPT ![<<"pkgA", "n1", "install">>] = "skipped"], missing |-> {}],
     [db |-> [AllOK EXCEPT ![<<"pkgA", "n1", "buildsrc">>] = "NA"], missing |-> {}],
     [db |-> AllOK, missing |-> {<<"pkgA", "n1", "buildsrc">>}],
     [db |-> AllOK, missing |-> {<<"pkgB", "n2", "checksrc">>}]}

InitRun ==
    /\ skipped_pkgs = {}
    /\ statuses = [p \in Pkgs |-> {}]
    /\ overall = [p \in Pkgs |-> "-"]
    /\ displayed \in RunStageLists
    /\ timeouts = [t \in TimeoutNames |-> 2400]
    /\ compact = FALSE
    /\ explanations = Unset
    /\ stage_labels = <<>>
    /\ buildtype \in BuildTypes
    /\ has_buildbin \in [Nodes -> BOOLEAN]
    /\ supported \in [Nodes -> SUBSET Pkgs]
    /\ \E a \in Anomalies : status_db = a.db /\ missing_out = a.missing
    /\ pkgs = SortedNames
    /\ pc = [at |-> "deps", i |-> 1, n |-> 1, s |-> 1]
    /\ IndexIdle
    /\ MainIdle
    /\ no_raw_results \in BOOLEAN
    /\ out_dirs = {}
    /\ out_files = MainFiles
    /\ pkg_dep_graph \in IF buildtype \in DepBuildTypes THEN DepGraphs
                         ELSE {[p \in Pkgs |-> {}]}
    /\ pkgs_inner_rev_deps = None
    /\ package_pages = Unset
    /\ status_pages = Unset
    /\ crash = ""

NextRun ==
    \/ LoadDepGraph
    \/ AssemblePackage
    \/ BeginPackageReports
    \/ MakePackageReport
    \/ MakePackageRawResults
    \/ SkipNode
    \/ PackageStatusStep

SpecRun == InitRun /\ [][NextRun]_vars

NextMain == ParseOptions \/ CheckStatusDB \/ RemakeReportDir \/ CopyInputs

SpecMain == InitMain /\ [][NextMain]_vars

(***************************************************************************)
(* Claims about the status resolver (checked under SpecStatus)             *)
(***************************************************************************)

\* The precedence of the overall status, strongest first.
Precedence == <<"ERROR", "TIMEOUT", "WARNINGS", "NA", "OK">>

\* The first name of Precedence found in S, "unknown" when there is none.
FirstMatch(S) ==
    LET hits == {i \in 1..Len(Precedence) : Precedence[i] \in S}
    IN  IF hits = {} THEN "unknown"
        ELSE Precedence[CHOOSE i \in hits : \A j \in hits : i <= j]

Rendered(p) == overall[p] # "-"

\* C1: every computed overall status is ERROR when the package is skipped,
\* and otherwise the first of ERROR, TIMEOUT, WARNINGS, NA, OK present in
\* the status set, unknown when none is; {OK, WARNINGS} not skipped gives
\* WARNINGS and the empty set with the package skipped gives ERROR.
C1_Precedence ==
    \A p \in Pkgs : Rendered(p) =>
        /\ overall[p] = IF p \in skipped_pkgs THEN "ERROR"
                        ELSE FirstMatch(statuses[p])
        /\ (statuses[p] = {"OK", "WARNINGS"} /\ p \notin skipped_pkgs
                => overall[p] = "WARNINGS")
        /\ (statuses[p] = {} /\ p \in skipped_pkgs => overall[p] = "ERROR")

C1_Witness ==
    /\ Rendered("pkgA") /\ Rendered("pkgB")
    /\ statuses["pkgA"] = {"OK", "WARNINGS"} /\ "pkgA" \notin skipped_pkgs
    /\ overall["pkgA"] = "WARNINGS"
    /\ statuses["pkgB"] = {} /\ "pkgB" \in skipped_pkgs
    /\ overall["pkgB"] = "ERROR"

\* C2 as stated: the overall status of a set is the overall status of the
\* same set written in upper case.
C2_CaseInsensitive ==
    \A p \in Pkgs : Rendered(p) =>
        overall[p] = IF p \in skipped_pkgs THEN "ERROR"
                     ELSE FirstMatch({Upper(s) : s \in statuses[p]})

\* C2 amended: the matching is case-sensitive. Only the exact upper-case
\* names count; a member that differs from a canonical name by letter case
\* is ignored, so that {"error"} and {"Timeout", "ok"}, not skipped, both
\* resolve to unknown.
C2_CaseSensitive ==
    \A p \in Pkgs : Rendered(p) /\ p \notin skipped_pkgs =>
        /\ overall[p] = FirstMatch(statuses[p] \ {"error", "Timeout", "ok"})
        /\ (statuses[p] \in {{"error"}, {"Timeout", "ok"}}
                => overall[p] = "unknown")

C2_Witness ==
    /\ Rendered("pkgA") /\ Rendered("pkgB")
    /\ skipped_pkgs = {}
    /\ statuses["pkgA"] = {"error"} /\ overall["pkgA"] = "unknown"
    /\ statuses["pkgB"] = {"Timeout", "ok"} /\ overall["pkgB"] = "unknown"

\* C3: every computed overall status is one of ERROR, TIMEOUT, WARNINGS, NA,
\* OK, unknown, and a package that is not skipped and whose status set holds
\* none of the five recognised names gets unknown.
C3_Total ==
    \A p \in Pkgs : Rendered(p) =>
        /\ overall[p] \in {"ERROR", "TIMEOUT", "WARNINGS", "NA", "OK", "unknown"}
        /\ (p \notin skipped_pkgs
             /\ statuses[p] \cap {"ERROR", "TIMEOUT", "WARNINGS", "NA", "OK"} = {}
                => overall[p] = "unknown")

C3_Witness ==
    /\ Rendered("pkgA") /\ Rendered("pkgB")
    /\ skipped_pkgs = {}
    /\ statuses["pkgA"] = {"skipped"} /\ overall["pkgA"] = "unknown"
    /\ statuses["pkgB"] = {} /\ overall["pkgB"] = "unknown"

\* C4 as stated: two packages with the same raw status set have the same
\* overall status.
C4_FunctionOfStatuses ==
    \A p, q \in Pkgs :
        Rendered(p) /\ Rendered(q) /\ statuses[p] = statuses[q]
            => overall[p] = overall[q]

\* C4 amended: the overall status is a function of the raw status set and
\* of whether the package is in the skipped list. Two packages with the
\* same status set that are both skipped or both not skipped have the same
\* overall status, whatever their names and the rest of the state.
C4_FunctionOfStatusesAndSkipped ==
    \A p, q \in Pkgs :
        /\ Rendered(p) /\ Rendered(q)
        /\ statuses[p] = statuses[q]
        /\ (p \in skipped_pkgs <=> q \in skipped_pkgs)
        => overall[p] = overall[q]

C4_Witness ==
    /\ Rendered("pkgA") /\ Rendered("pkgB")
    /\ statuses["pkgA"] = {"OK", "NA"} /\ statuses["pkgB"] = {"OK", "NA"}
    /\ skipped_pkgs = Pkgs
    /\ overall["pkgA"] = "ERROR" /\ overall["pkgB"] = "ERROR"

(***************************************************************************)
(* Claims about the message composer (checked under SpecMsg)               *)
(***************************************************************************)

Explained == explanations # Unset

\* The labels of the stages of the report, in the order of the stage list.
Labels == [i \in 1..Len(displayed) |-> stage_label(displayed[i])]

\* The joining rule: a single label unadorned; otherwise the labels but the
\* last separated by ", ", then " ", the conjunction, " " and the last one.
RECURSIVE JoinRule(_, _)
JoinRule(q, conj) ==
    IF Len(q) = 1 THEN q[1]
    ELSE IF Len(q) = 2 THEN q[1] \o " " \o conj \o " " \o q[2]
    ELSE q[1] \o ", " \o JoinRule(Tail(q), conj)

\* The members of q that are in S, in the order of q.
Only(q, S) ==
    LET Test(x) == x \in S
    IN  SelectSeq(q, Test)

\* The stages that declare a timeout, and the timeout of each in minutes.
TimeoutLabels == {"INSTALL", "BUILD", "CHECK", "BUILD BIN"}

MinutesOf(label) ==
    LET name == IF label = "BUILD BIN" THEN "BUILDBIN" ELSE label
    IN  CHOOSE m \in 0..timeouts[name] :
            m * 60 <= timeouts[name] /\ timeouts[name] < (m + 1) * 60

\* The TIMEOUT sentence that names the stages N in this order.
TimeoutSentence(N) ==
    LET T == [i \in 1..Len(N) |-> ToString(MinutesOf(N[i]))]
    IN  JoinRule(N, "or") \o " of package took more than "
        \o (IF \A i, j \in 1..Len(N) : T[i] = T[j]
            THEN T[1] \o " minutes"
            ELSE JoinRule(T, "or") \o " minutes, respectively")

\* The lists of the distinct members of S, in every order.
Orderings(S) ==
    {q \in [1..Cardinality(S) -> S] :
        \A i, j \in 1..Cardinality(S) : i # j => q[i] # q[j]}

\* C5: for every list of N >= 1 stage labels the OK message is the join of
\* the labels (", " between the first N-1, then " or " and the last; one
\* label unadorned) followed by " of package went OK", and the NA message is
\* the same join followed by " result is not available because of an anomaly
\* in the Build System".
C5_JoinRule ==
    Explained =>
        /\ explanations["ok"] = JoinRule(Labels, "or") \o " of package went OK"
        /\ explanations["na"] = JoinRule(Labels, "or")
              \o " result is not available because of an anomaly in the Build System"
        /\ (Labels = <<"BUILD">>
              => explanations["ok"] = "BUILD of package went OK")
        /\ (Labels = <<"BUILD", "CHECK">>
              => explanations["ok"] = "BUILD or CHECK of package went OK")
        /\ (Labels = <<"INSTALL", "BUILD", "CHECK">>
              => explanations["ok"] = "INSTALL, BUILD or CHECK of package went OK")

C5_Witness ==
    /\ Explained
    /\ Labels = <<"INSTALL", "BUILD", "CHECK">>
    /\ explanations["ok"] = "INSTALL, BUILD or CHECK of package went OK"
    /\ explanations["na"] = "INSTALL, BUILD or CHECK result is not available"
                            \o " because of an anomaly in the Build System"

\* C6 as stated: the OK message joins the last label with "and" under the
\* compact layout and with "or" otherwise.
C6_AndUnderCompact ==
    Explained =>
        explanations["ok"] = JoinRule(Labels, IF compact THEN "and" ELSE "or")
                                \o " of package went OK"

\* C6 amended: the OK message joins the last label with "or" under every
\* layout; with two labels or more it is never the "and" join, whether the
\* report is compact or not.
C6_OrUnderEveryLayout ==
    Explained /\ Len(Labels) >= 2 =>
        /\ explanations["ok"] = JoinRule(Labels, "or") \o " of package went OK"
        /\ explanations["ok"] # JoinRule(Labels, "and") \o " of package went OK"

C6_Witness ==
    /\ Explained
    /\ compact
    /\ Labels = <<"BUILD", "CHECK">>
    /\ explanations["ok"] = "BUILD or CHECK of package went OK"

\* C7: the TIMEOUT message names the active stages that declare a timeout,
\* each once and no other, and the i-th value it states is the timeout in
\* whole minutes of the i-th stage it names, whatever the order of the stage
\* list.
C7_TimeoutPairs ==
    Explained =>
        \E N \in Orderings(Range(Labels) \cap TimeoutLabels) :
            explanations["timeout"] = TimeoutSentence(N)

C7_Witness ==
    /\ Explained
    /\ Labels = <<"CHECK", "BUILD BIN", "INSTALL">>
    /\ timeouts["INSTALL"] = 2459
    /\ timeouts["CHECK"] = 4800
    /\ timeouts["BUILDBIN"] = 2400
    /\ explanations["timeout"] =
          "INSTALL, CHECK or BUILD BIN of package took more than "
          \o "40, 80 or 40 minutes, respectively"

\* C8: when all the stages the TIMEOUT message names have the same timeout,
\* the value is stated once; as soon as two differ, every value is listed in
\* the order of the labels, joined like the labels, and the message ends with
\* ", respectively".
C8_TimeoutValues ==
    Explained =>
        LET N == Only(<<"INSTALL", "BUILD", "CHECK", "BUILD BIN">>, Range(Labels))
            T == [i \in 1..Len(N) |-> ToString(MinutesOf(N[i]))]
            head == JoinRule(N, "or") \o " of package took more than "
        IN  /\ (\A i, j \in 1..Len(N) : MinutesOf(N[i]) = MinutesOf(N[j]))
                  => explanations["timeout"] = head \o T[1] \o " minutes"
            /\ (\E i, j \in 1..Len(N) : MinutesOf(N[i]) # MinutesOf(N[j]))
                  => explanations["timeout"] =
                        head \o JoinRule(T, "or") \o " minutes, respectively"
            /\ (Labels = <<"BUILD", "CHECK">>
                /\ timeouts["BUILD"] = 2400 /\ timeouts["CHECK"] = 2400
                  => explanations["timeout"] =
                        "BUILD or CHECK of package took more than 40 minutes")
            /\ (Labels = <<"BUILD", "CHECK">>
                /\ timeouts["BUILD"] = 2400 /\ timeouts["CHECK"] = 4800
                  => explanations["timeout"] =
                        "BUILD or CHECK of package took more than "
                        \o "40 or 80 minutes, respectively")

C8_Witness ==
    /\ Explained
    /\ Labels = <<"INSTALL", "BUILD", "CHECK">>
    /\ timeouts["INSTALL"] = 2400
    /\ timeouts["BUILD"] = 4800
    /\ timeouts["CHECK"] = 2400
    /\ explanations["timeout"] =
          "INSTALL, BUILD or CHECK of package took more than "
          \o "40, 80 or 40 minutes, respectively"

\* C9: the ERROR message starts with "Bad DESCRIPTION file, or "; CHECK is
\* not joined with the other labels: with CHECK and other stages active, the
\* other labels are joined by the rule and followed by " of package failed",
\* and the clause "or CHECK produced errors" comes after them; the stage list
\* of the caller is the same after the call.
C9_ErrorMessage ==
    Explained =>
        LET others == Only(Labels, Range(Labels) \ {"CHECK"})
        IN  /\ explanations["error"] =
                  "Bad DESCRIPTION file, or "
                  \o (IF others = <<>> THEN "CHECK of package produced errors"
                      ELSE JoinRule(others, "or") \o " of package failed"
                           \o (IF "CHECK" \in Range(Labels)
                               THEN ", " \o "or CHECK produced errors"
                               ELSE ""))
            /\ stage_labels = Labels

C9_Witness ==
    /\ Explained
    /\ Labels = <<"INSTALL", "CHECK", "BUILD">>
    /\ explanations["error"] =
          "Bad DESCRIPTION file, or INSTALL or BUILD of package failed, "
          \o "or CHECK produced errors"
    /\ stage_labels = <<"INSTALL", "CHECK", "BUILD">>

\* C10: the table has a WARNINGS entry exactly when CHECK is an active stage
\* and a SKIPPED entry exactly when CHECK or BUILD BIN is; the SKIPPED
\* sentence names those of CHECK and BUILD BIN that are active, and goes on
\* " of package was skipped because the BUILD step failed".
C10_WarningsAndSkipped ==
    Explained =>
        /\ "check" \in DOMAIN explanations <=> "CHECK" \in Range(Labels)
        /\ "skipped" \in DOMAIN explanations
              <=> Range(Labels) \cap {"CHECK", "BUILD BIN"} # {}
        /\ "skipped" \in DOMAIN explanations =>
              explanations["skipped"] =
                  JoinRule(Only(<<"CHECK", "BUILD BIN">>, Range(Labels)), "or")
                  \o " of package was skipped because the BUILD step failed"

C10_Witness ==
    /\ Explained
    /\ Labels = <<"BUILD", "CHECK">>
    /\ "check" \in DOMAIN explanations
    /\ explanations["skipped"] =
          "CHECK of package was skipped because the BUILD step failed"

(***************************************************************************)
(* Claims about the report data assembler (checked under SpecAsm)          *)
(***************************************************************************)

\* The package records of content.pkgs.
Records == {pkgs[i] : i \in {j \in 1..Len(pkgs) : pkgs[j].isref}}

\* C11 as stated: under every build-matrix type other than long-tests, no
\* per-node result set of a package holds an install entry.
C11_InstallOnlyLongtests ==
    \A r \in Records : \A n \in DOMAIN r.results :
        buildtype # "bioc-longtests" => "install" \notin DOMAIN r.results[n]

\* C11 amended: the install stage applies to every build-matrix type but
\* long-tests. Under long-tests no per-node result set holds an install
\* entry; under every other type, with install in the stage list, the result
\* set of every supporting node holds the install status of the package.
C11_InstallExceptLongtests ==
    \A r \in Records : \A n \in DOMAIN r.results :
        /\ "install" \in DOMAIN r.results[n]
              <=> (buildtype # "bioc-longtests" /\ "install" \in Range(displayed))
        /\ "install" \in DOMAIN r.results[n]
              => r.results[n]["install"] = status_db[<<r.name, n, "install">>]

C11_Witness ==
    /\ buildtype = "bioc"
    /\ \E r \in Records :
          /\ r.name = "pkgA"
          /\ "n1" \in DOMAIN r.results
          /\ "install" \in DOMAIN r.results["n1"]
          /\ r.results["n1"]["install"] = "NA"

\* C12: with buildsrc in the stage list, the build status is recorded for
\* every node that supports the package, under every build-matrix type; with
\* checksrc in the stage list, the check status is recorded exactly when the
\* type is neither workflows nor books.
C12_BuildAlwaysCheckOutsideWorkflowsBooks ==
    \A r \in Records :
        /\ DOMAIN r.results = {n \in Nodes : r.name \in supported[n]}
        /\ \A n \in DOMAIN r.results :
            /\ "buildsrc" \in Range(displayed) =>
                  /\ "build" \in DOMAIN r.results[n]
                  /\ r.results[n]["build"] = status_db[<<r.name, n, "buildsrc">>]
            /\ "checksrc" \in Range(displayed) =>
                  ("check" \in DOMAIN r.results[n]
                      <=> buildtype \notin {"workflows", "books"})
            /\ "check" \in DOMAIN r.results[n] =>
                  r.results[n]["check"] = status_db[<<r.name, n, "checksrc">>]

C12_Witness ==
    /\ buildtype = "books"
    /\ {"buildsrc", "checksrc"} \subseteq Range(displayed)
    /\ \E r \in Records :
          /\ DOMAIN r.results = Nodes
          /\ \A n \in Nodes : /\ "build" \in DOMAIN r.results[n]
                              /\ "check" \notin DOMAIN r.results[n]

\* C13: with buildbin in the stage list, the result set of a package for a
\* supporting node holds a binary-build entry if the node performs binary
\* builds, and none if it does not.
C13_BuildbinOnBinaryNodes ==
    \A r \in Records : \A n \in DOMAIN r.results :
        "buildbin" \in Range(displayed) =>
            ({"buildbin", "build bin"} \cap DOMAIN r.results[n] # {}
                <=> has_buildbin[n])

(***************************************************************************)
(* Claims about the package list (checked under SpecPkgs)                  *)
(***************************************************************************)

\* The lower-case spelling of the package names.
LowerName(name) ==
    CASE name = "AAAA" -> "aaaa"
      [] name = "Zoo" -> "zoo"
      [] name = "aBc" -> "abc"
      [] OTHER -> name

\* a <= b in the lexicographic order of the code points.
LexLeq(a, b) ==
    LET ca == Codes(a)
        cb == Codes(b)
        diff == {i \in 1..Len(a) : i > Len(b) \/ ca[i] # cb[i]}
        first == CHOOSE i \in diff : \A j \in diff : i <= j
    IN  diff = {} \/ (first <= Len(b) /\ ca[first] < cb[first])

\* How often name occurs in the list q.
Count(q, name) == Cardinality({i \in 1..Len(q) : q[i] = name})

\* C14: the package list holds the names of the metadata index and of the
\* skipped index, each as often as the two hold it, and the lower-cased name
\* of an entry is never greater than the lower-cased name of the next entry.
C14_MergedAndSorted ==
    pc.at = "sorted" =>
        LET names == [i \in 1..Len(pkgs) |-> pkgs[i].name]
        IN  /\ \A i \in 1..Len(names) - 1 :
                  LexLeq(LowerName(names[i]), LowerName(names[i + 1]))
            /\ \A x \in PkgNames :
                  Count(names, x) = Count(MEAT_INDEX, x) + Count(skipped_index, x)

C14_Witness ==
    /\ pc.at = "sorted"
    /\ MEAT_INDEX = <<"zlibbioc", "Zoo">>
    /\ skipped_index = <<"apple">>
    /\ [i \in 1..Len(pkgs) |-> pkgs[i].name] = <<"apple", "zlibbioc", "Zoo">>

(***************************************************************************)
(* Claims about the main section (checked under SpecMain)                  *)
(***************************************************************************)

\* The options given on the command line.
Given == {argv[i] : i \in 2..Len(argv)}

C20_WitnessUsage ==
    /\ pc.at = "exit"
    /\ argv = <<"BBS-report.py", "simple-layout", "--help">>
    /\ exit = [code |-> 1, msg |-> usage_msg]

\* C18: with the status database missing, the report directory stays as the
\* earlier run left it, and once the database has been looked for the
\* process has printed that it is missing and exited with a non-zero status.
C18_ExitBeforeOutput ==
    (~db_isfile /\ Given \subseteq Range(valid_options)) =>
        /\ out_dirs = StaleDirs /\ out_files = StaleFiles
        /\ pc.at \in {"parse", "check_db", "exit"}
        /\ pc.at = "exit" =>
              /\ stdout = <<"BUILD_STATUS_DB_file missing">>
              /\ exit.msg = "=> EXIT." /\ exit.code # 0

C18_Witness ==
    /\ ~db_isfile
    /\ pc.at = "exit"
    /\ exit.msg = "=> EXIT."
    /\ out_files = StaleFiles

(***************************************************************************)
(* Claims about the package pages (checked under SpecRun)                  *)
(***************************************************************************)

\* C15: under a build type with dependency reporting, every package page
\* written is rendered with the inner reverse dependencies computed for that
\* package during assembly.
C15_RevDepsOnPage ==
    buildtype \in {"bioc", "bioc-mac-arm64"} =>
        \A name \in DOMAIN package_pages :
            package_pages[name] = pkgs_inner_rev_deps[name]

\* A path below the raw-results directory of a package.
UnderRawResults(path) == Len(path) >= 2 /\ path[2] = "raw-results"

\* C16: with the no-raw-results flag set, no directory and no file of the
\* report directory is a raw-results directory or lies below one.
C16_NoRawResults ==
    no_raw_results =>
        \A path \in out_dirs \cup out_files : ~UnderRawResults(path)

C16_Witness ==
    /\ no_raw_results
    /\ pc.at = "done"
    /\ <<"pkgA", "n1-install.html">> \in out_files
    /\ <<"pkgB", "n2-checksrc.html">> \in out_files

\* C17: no step of the run is ended by a directory that is already there.
C17_CreateIfAbsent == crash # "FileExistsError"

\* The status page of (package, node, stage) is due: the stage loop is at it
\* and reads a status other than skipped and NA.
PageDue(m) ==
    /\ pc.at = "status"
    /\ pkgs[pc.i].name = m[1] /\ NODES[pc.n] = m[2] /\ ContentStages[pc.s] = m[3]
    /\ m[1] \in supported[m[2]]
    /\ ~(m[3] = "buildbin" /\ ~has_buildbin[m[2]])
    /\ RemoveSuffixSrc(m[3]) \in DOMAIN pkgs[pc.i].results[m[2]]
    /\ pkgs[pc.i].results[m[2]][RemoveSuffixSrc(m[3])] \notin {"skipped", "NA"}

\* What the loops go on with after the stage they are at.
GoesOn ==
    IF pc.s < Len(displayed) THEN pc'.at = "status" /\ pc'.s = pc.s + 1
    ELSE IF pc.n < Len(NODES) THEN pc'.at = "status" /\ pc'.n = pc.n + 1
    ELSE IF pc.i < Len(pkgs) THEN pc'.at = "package_report" /\ pc'.i = pc.i + 1
    ELSE pc'.at = "done"

\* C19: an out.txt that is missing is never copied to the report directory;
\* when the status page of its package, node and stage is due, the step
\* writes the page with the apology as command output, no exception ends the
\* run, and the loops go on with the next stage, node or package.
C19_MissingOutput ==
    /\ [](\A m \in missing_out :
            <<m[1], "raw-results", m[2], m[3] \o "-out.txt">> \notin out_files)
    /\ [][\A m \in missing_out : PageDue(m) =>
            /\ <<m[1], m[2] \o "-" \o m[3] \o ".html">> \in out_files'
            /\ <<m[1], m[2] \o "-" \o m[3] \o ".html">> \in DOMAIN status_pages'
            /\ status_pages'[<<m[1], m[2] \o "-" \o m[3] \o ".html">>] =
                 "Due to an anomaly in the Build System, this output is not available. We apologize for the inconvenience."
            /\ crash' = ""
            /\ GoesOn]_vars

C19_Witness ==
    /\ missing_out = {<<"pkgA", "n1", "buildsrc">>}
    /\ ~no_raw_results
    /\ pc.at = "done"
    /\ <<"pkgA", "n1-buildsrc.html">> \in DOMAIN status_pages
    /\ status_pages[<<"pkgA", "n1-buildsrc.html">>] = Apology
    /\ <<"pkgA", "raw-results", "n1", "buildsrc-summary.dcf">> \in out_files
    /\ <<"pkgA", "n1-checksrc.html">> \in DOMAIN status_pages
    /\ <<"pkgB", "n2-buildsrc.html">> \in DOMAIN status_pages

\* C21: no write of the run fails for want of its directory, and every file
\* and directory below the report directory lies in a directory that is there.
C21_DirsBeforeWrites ==
    /\ crash # "FileNotFoundError"
    /\ \A path \in out_files \cup out_dirs :
          Len(path) > 1 => SubSeq(path, 1, Len(path) - 1) \in out_dirs

C21_Witness ==
    /\ pc.at = "done"
    /\ {<<"pkgA", "index.html">>, <<"pkgA", "n1-buildsrc.html">>,
        <<"pkgA", "raw-results", "info.dcf">>,
        <<"pkgA", "raw-results", "n1", "buildsrc-summary.dcf">>,
        <<"pkgA", "raw-results", "n1", "buildsrc-out.txt">>,
        <<"pkgB", "raw-results", "n2", "checksrc-summary.dcf">>} \subseteq out_files

\* C22: no lookup of a package's results misses: no step of the run is ended
\* by a key that BBSPackageReference did not store.
C22_NoLookupMisses == crash # "KeyError"

\* C23: once the content is built, every entry of its package list is a
\* package record, and no page emitter fails to read the name of an entry.
C23_EveryEntryIsRecord ==
    pc.at \notin {"deps", "assemble"} =>
        /\ \A i \in 1..Len(pkgs) : pkgs[i].isref
        /\ crash # "AttributeError"

====
